---------------------------- MODULE Spec2Model ----------------------------
(***************************************************************************)
(* Model of UserDataFormatter (data-manager-util): the six field           *)
(* normalizers, hashString, the two encoders and the process operations    *)
(* composed from them; and of the two samples that use it, ingest_events   *)
(* and ingest_audience_members: their row loops and their send loops.      *)
(*                                                                         *)
(* A JavaScript string is a sequence of characters, each character a       *)
(* one-character TLA+ string.  A call argument is a record                 *)
(* [tag, chars]: tag is "null", "undefined" or "string".  The outcome of a *)
(* call is a record [kind, str, bytes, msg]: kind "return" with the        *)
(* returned string (str) or Buffer (bytes), or kind "throw" with the       *)
(* message of the Error that was thrown.                                   *)
(***************************************************************************)
EXTENDS Integers, Sequences, FiniteSets, TLC

VARIABLES field, raw, buf, nchunks, pc, op, enc, result, fed, prev, first

\* The state of a run of one of the two ingestion samples: which sample
\* runs (sample), the rows read from its input file (rows), where main is
\* (at) and the next row of the row loop (rowIx), the events or audience
\* members built so far (records), the warnings written (warnings), the
\* loop variable i of the send loop (batchStart), the
\* counter requestCount and the requests sent, each as its record list
\* (sent).
VARIABLES sample, rows, at, rowIx, records, warnings, batchStart,
          requestCount, sent

\* The suffix loop of formatFamilyName, one round at a time: the trimmed,
\* lower-cased family name the loop starts from (trimmedName), the working
\* string withoutSuffix of the loop (nameLeft), the rounds of the loop
\* body run so far (rounds) and where the method is (loopAt).
VARIABLES trimmedName, nameLeft, rounds, loopAt

formatterVars ==
  <<field, raw, buf, nchunks, pc, op, enc, result, fed, prev, first>>

sampleVars ==
  <<sample, rows, at, rowIx, records, warnings, batchStart, requestCount,
    sent>>

loopVars == <<trimmedName, nameLeft, rounds, loopAt>>

vars == <<formatterVars, sampleVars, loopVars>>

(***************************************************************************)
(* Bounds of the model.                                                    *)
(***************************************************************************)
\* The longest raw input, counted in chunks of InputChunks.
MaxChunks == 4

\* The longest Buffer a caller hands to an encoder, in bytes.
MaxBytes == 4

(***************************************************************************)
(* Characters.                                                             *)
(***************************************************************************)
\* Representatives of what String.prototype.trim strips and the regular
\* expression class \s matches (WhiteSpace and LineTerminator).
WhiteSpace == {" ", "\t", "\n"}

UpperCase ==
  <<"A","B","C","D","E","F","G","H","I","J","K","L","M",
    "N","O","P","Q","R","S","T","U","V","W","X","Y","Z">>

LowerCase ==
  <<"a","b","c","d","e","f","g","h","i","j","k","l","m",
    "n","o","p","q","r","s","t","u","v","w","x","y","z">>

Range(s) == {s[i] : i \in 1..Len(s)}

UpperCaseLetters == Range(UpperCase)

LowerCaseLetters == Range(LowerCase)

IsUpper(c) == c \in UpperCaseLetters

IsLower(c) == c \in LowerCaseLetters

ToLowerChar(c) ==
  IF IsUpper(c) THEN LowerCase[CHOOSE i \in 1..26 : UpperCase[i] = c] ELSE c

ToUpperChar(c) ==
  IF IsLower(c) THEN UpperCase[CHOOSE i \in 1..26 : LowerCase[i] = c] ELSE c

DigitChars == <<"0","1","2","3","4","5","6","7","8","9">>

Punctuation == <<" ", "+", ",", "-", ".", "@", "(", ")">>

PunctuationCodes == <<32, 43, 44, 45, 46, 64, 40, 41>>

Digits == Range(DigitChars)

IndexOf(s, c) == CHOOSE i \in 1..Len(s) : s[i] = c

\* The UTF-8 code of a character of the model (all of them are ASCII).
Code(c) ==
  IF c = "\t" THEN 9
  ELSE IF c = "\n" THEN 10
  ELSE IF c \in Digits THEN 47 + IndexOf(DigitChars, c)
  ELSE IF IsUpper(c) THEN 64 + IndexOf(UpperCase, c)
  ELSE IF IsLower(c) THEN 96 + IndexOf(LowerCase, c)
  ELSE PunctuationCodes[IndexOf(Punctuation, c)]

(***************************************************************************)
(* String primitives of the JavaScript runtime.                            *)
(***************************************************************************)
SubStr(s, a, b) == IF a > b THEN <<>> ELSE SubSeq(s, a, b)

RECURSIVE TrimStart(_)
TrimStart(s) ==
  IF s # <<>> /\ Head(s) \in WhiteSpace THEN TrimStart(Tail(s)) ELSE s

RECURSIVE TrimEnd(_)
TrimEnd(s) ==
  IF s # <<>> /\ s[Len(s)] \in WhiteSpace
  THEN TrimEnd(SubStr(s, 1, Len(s) - 1))
  ELSE s

\* String.prototype.trim
Trim(s) == TrimEnd(TrimStart(s))

\* A toLowerCase that folds the first character only.
ToLowerCase_FirstOnly(s) ==
  [i \in 1..Len(s) |-> IF i = 1 THEN ToLowerChar(s[i]) ELSE s[i]]

\* String.prototype.toLowerCase
ToLowerCase(s) == [i \in 1..Len(s) |-> ToLowerChar(s[i])]

\* The upper-case mapping of one character.  String.prototype.toUpperCase
\* applies the full Unicode case mapping, under which a character can become
\* several: U+00DF (sharp s) becomes the two letters SS.
ToUpperChars(c) == IF c = "ß" THEN <<"S", "S">> ELSE <<ToUpperChar(c)>>

\* String.prototype.toUpperCase
RECURSIVE ToUpperCase(_)
ToUpperCase(s) ==
  IF s = <<>> THEN <<>> ELSE ToUpperChars(Head(s)) \o ToUpperCase(Tail(s))

\* String.prototype.includes, for a one-character needle
Includes(s, c) == \E i \in 1..Len(s) : s[i] = c

\* String.prototype.split, for a one-character separator
RECURSIVE Split(_, _)
Split(s, sep) ==
  IF ~Includes(s, sep) THEN <<s>>
  ELSE LET i == CHOOSE k \in 1..Len(s) :
                  s[k] = sep /\ \A j \in 1..(k - 1) : s[j] # sep
       IN <<SubStr(s, 1, i - 1)>> \o Split(SubStr(s, i + 1, Len(s)), sep)

\* s.replace(c, ""): without the g flag only the first c is removed.
RemoveAll_FirstOnly(s, c) ==
  IF \E i \in 1..Len(s) : s[i] = c
  THEN LET i == CHOOSE k \in 1..Len(s) :
                  s[k] = c /\ \A j \in 1..(k - 1) : s[j] # c
       IN SubStr(s, 1, i - 1) \o SubStr(s, i + 1, Len(s))
  ELSE s

\* s.replace(/c/g, "") for a single character c
RemoveAll(s, c) == SelectSeq(s, LAMBDA x : x # c)

(***************************************************************************)
(* Values.                                                                 *)
(***************************************************************************)
NullValue == [tag |-> "null", chars |-> <<>>]

UndefinedValue == [tag |-> "undefined", chars |-> <<>>]

StringValue(s) == [tag |-> "string", chars |-> s]

\* !x for a value typed string: null, undefined and '' are falsy.
Falsy(x) == x.tag # "string" \/ x.chars = <<>>

Return(s) == [kind |-> "return", str |-> s, bytes |-> <<>>, msg |-> ""]

ReturnBytes(b) == [kind |-> "return", str |-> <<>>, bytes |-> b, msg |-> ""]

Throw(m) == [kind |-> "throw", str |-> <<>>, bytes |-> <<>>, msg |-> m]

NoResult == [kind |-> "none", str |-> <<>>, bytes |-> <<>>, msg |-> ""]

(***************************************************************************)
(* The field normalizers.                                                  *)
(***************************************************************************)
GmailDomains ==
  { <<"g","m","a","i","l",".","c","o","m">>,
    <<"g","o","o","g","l","e","m","a","i","l",".","c","o","m">> }

\* trimmedEmail.includes(' ')
ContainsIntermediateWhitespace(trimmedEmail) == Includes(trimmedEmail, " ")

\* The check of the split that lets more than two parts through.
NotUserAtDomain_FewerThanTwo(emailParts) == Len(emailParts) < 2

\* emailParts.length !== 2
NotUserAtDomain(emailParts) == Len(emailParts) # 2

formatEmailAddress(emailAddress) ==
  IF Falsy(emailAddress) THEN Throw("Email address is null or empty.")
  ELSE
  LET trimmedEmail == Trim(emailAddress.chars) IN
  IF trimmedEmail = <<>> THEN Throw("Email address is empty or blank.")
  ELSE IF ContainsIntermediateWhitespace(trimmedEmail)
  THEN Throw("Email address contains intermediate whitespace.")
  ELSE
  LET emailParts == Split(ToLowerCase(trimmedEmail), "@") IN
  IF NotUserAtDomain(emailParts)
  THEN Throw("Email is not of the form user@domain")
  ELSE
  LET domain == emailParts[2]
      username == IF domain \in GmailDomains
                  THEN RemoveAll(emailParts[1], ".")
                  ELSE emailParts[1]
  IN
  IF emailParts[1] = <<>>
  THEN Throw("Email address without the domain is empty")
  ELSE IF domain = <<>> THEN Throw("Domain of email address is empty")
  ELSE IF username = <<>>
  THEN Throw("Email address without the domain name is empty after normalization")
  ELSE Return(username \o <<"@">> \o domain)

\* trimmedPhone.replace(/[^\d+]/g, ''): a replace that spares '+'.
DigitsOnly_KeepPlus(s) == SelectSeq(s, LAMBDA c : c \in Digits \/ c = "+")

\* trimmedPhone.replace(/\D/g, '')
DigitsOnly(s) == SelectSeq(s, LAMBDA c : c \in Digits)

formatPhoneNumber(phoneNumber) ==
  IF Falsy(phoneNumber) THEN Throw("Phone number is null or empty.")
  ELSE
  LET trimmedPhone == Trim(phoneNumber.chars) IN
  IF trimmedPhone = <<>> THEN Throw("Phone number is empty or blank.")
  ELSE
  LET digitsOnly == DigitsOnly(trimmedPhone) IN
  IF digitsOnly = <<>> THEN Throw("Phone number contains no digits.")
  ELSE Return(<<"+">> \o digitsOnly)

\* The alternatives of the prefix pattern, in the order the pattern lists them.
NamePrefixes == << <<"m","r">>, <<"m","r","s">>, <<"m","s">>, <<"d","r">> >>

StartsWith(s, p) == Len(s) >= Len(p) /\ SubStr(s, 1, Len(p)) = p

\* The prefix pattern without its lookout for what follows the '.'.
PrefixMatchLen_AnyFollower(s) ==
  LET Ends(i) == StartsWith(s, NamePrefixes[i] \o <<".">>)
  IN IF \E i \in 1..Len(NamePrefixes) : Ends(i)
     THEN Len(NamePrefixes[CHOOSE k \in 1..Len(NamePrefixes) : Ends(k)]) + 1
     ELSE 0

\* The length of the match of /^(?:mr|mrs|ms|dr)\.(?:\s|$)/ in s, 0 when the
\* pattern does not match: a prefix, a literal '.', and then one whitespace
\* character (which the match consumes) or the end of the string.
PrefixMatchLen(s) ==
  LET Ends(i) == LET p == NamePrefixes[i] \o <<".">> IN
                 /\ StartsWith(s, p)
                 /\ (Len(s) = Len(p) \/ s[Len(p) + 1] \in WhiteSpace)
  IN IF \E i \in 1..Len(NamePrefixes) : Ends(i)
     THEN LET i == CHOOSE k \in 1..Len(NamePrefixes) : Ends(k)
              n == Len(NamePrefixes[i]) + 1
          IN IF Len(s) = n THEN n ELSE n + 1
     ELSE 0

\* formatGivenName without its check for a name that was a prefix only.
formatGivenName_NoPrefixOnlyCheck(givenName) ==
  IF Falsy(givenName) THEN Throw("Given name is null or empty.")
  ELSE
  LET trimmedGivenName == ToLowerCase(Trim(givenName.chars)) IN
  IF trimmedGivenName = <<>> THEN Throw("Given name is empty or blank.")
  ELSE
  Return(Trim(SubStr(trimmedGivenName, PrefixMatchLen(trimmedGivenName) + 1,
                     Len(trimmedGivenName))))

formatGivenName(givenName) ==
  IF Falsy(givenName) THEN Throw("Given name is null or empty.")
  ELSE
  LET trimmedGivenName == ToLowerCase(Trim(givenName.chars)) IN
  IF trimmedGivenName = <<>> THEN Throw("Given name is empty or blank.")
  ELSE
  LET withoutPrefix ==
        Trim(SubStr(trimmedGivenName, PrefixMatchLen(trimmedGivenName) + 1,
                    Len(trimmedGivenName)))
  IN
  IF withoutPrefix = <<>> THEN Throw("Given name consists solely of a prefix.")
  ELSE Return(withoutPrefix)

\* The tokens of the suffix pattern that may be followed by a literal '.'
\* (jr\.? and sr\.?), and the other tokens.
DottableSuffixes == { <<"j","r">>, <<"s","r">> }

PlainSuffixes ==
  { <<"2","n","d">>, <<"3","r","d">>, <<"i","i">>, <<"i","i","i">>,
    <<"i","v">>, <<"v">>, <<"v","i">>, <<"c","p","a">>, <<"d","c">>,
    <<"d","d","s">>, <<"v","m">>, <<"j","d">>, <<"m","d">>,
    <<"p","h","d">> }

\* The strings the token alternation of suffixPattern matches.
SuffixTokens ==
  PlainSuffixes \cup DottableSuffixes
    \cup {tok \o <<".">> : tok \in DottableSuffixes}

\* (?:,\s*|\s+): a comma and any whitespace, or at least one whitespace.
IsSeparator(t) ==
  /\ t # <<>>
  /\ \/ t[1] = "," /\ \A i \in 2..Len(t) : t[i] \in WhiteSpace
     \/ \A i \in 1..Len(t) : t[i] \in WhiteSpace

\* Whether suffixPattern matches s from position i to the end of s:
\* a separator, a token, at most one whitespace character, the end.
SuffixMatchesAt(s, i) ==
  \E j \in (i + 1)..Len(s) : \E k \in {Len(s) - 1, Len(s)} :
    /\ j <= k
    /\ IsSeparator(SubStr(s, i, j - 1))
    /\ SubStr(s, j, k) \in SuffixTokens
    /\ (k = Len(s) \/ s[Len(s)] \in WhiteSpace)

\* suffixPattern.test(s)
SuffixTest(s) == \E i \in 1..Len(s) : SuffixMatchesAt(s, i)

\* A replacement that leaves the first character of the match in place.
SuffixReplace_KeepSeparator(s) ==
  IF SuffixTest(s)
  THEN LET i == CHOOSE k \in 1..Len(s) :
                  SuffixMatchesAt(s, k) /\ \A m \in 1..(k - 1) : ~SuffixMatchesAt(s, m)
       IN SubStr(s, 1, i)
  ELSE s

\* s.replace(suffixPattern, ''): the leftmost match is removed, and it
\* reaches to the end of s.
SuffixReplace(s) ==
  IF SuffixTest(s)
  THEN LET i == CHOOSE k \in 1..Len(s) :
                  SuffixMatchesAt(s, k) /\ \A m \in 1..(k - 1) : ~SuffixMatchesAt(s, m)
       IN SubStr(s, 1, i - 1)
  ELSE s

\* The replacement made once, with no loop around it.
StripSuffixes_Once(s) == SuffixReplace(s)

\* while (suffixPattern.test(withoutSuffix)) withoutSuffix = replace(...)
RECURSIVE StripSuffixes(_)
StripSuffixes(s) == IF SuffixTest(s) THEN StripSuffixes(SuffixReplace(s)) ELSE s

formatFamilyName(familyName) ==
  IF Falsy(familyName) THEN Throw("Family name is null or empty.")
  ELSE
  LET trimmedFamilyName == ToLowerCase(Trim(familyName.chars)) IN
  IF trimmedFamilyName = <<>> THEN Throw("Family name is empty or blank.")
  ELSE
  LET withoutSuffix == StripSuffixes(trimmedFamilyName) IN
  IF withoutSuffix = <<>> THEN Throw("Family name consists solely of a suffix.")
  ELSE Return(withoutSuffix)

formatRegionCode(regionCode) ==
  IF Falsy(regionCode) THEN Throw("Region code is null or empty.")
  ELSE
  LET trimmedRegionCode == ToUpperCase(Trim(regionCode.chars)) IN
  IF trimmedRegionCode = <<>> THEN Throw("Region code is empty or blank.")
  ELSE IF Len(trimmedRegionCode) # 2 THEN Throw("Region code length must be 2")
  ELSE IF \E i \in 1..Len(trimmedRegionCode) : ~IsUpper(trimmedRegionCode[i])
  THEN Throw("Region code contains characters other than A-Z")
  ELSE Return(trimmedRegionCode)

formatPostalCode(postalCode) ==
  IF Falsy(postalCode) THEN Throw("Postal code is null or empty.")
  ELSE
  LET trimmedPostalCode == Trim(postalCode.chars) IN
  IF trimmedPostalCode = <<>> THEN Throw("Postal code is empty or blank.")
  ELSE Return(trimmedPostalCode)

(***************************************************************************)
(* Digest and encoders.                                                    *)
(***************************************************************************)
\* The length of a SHA-256 digest in bytes.
DigestLength == 32

\* crypto.createHash('sha256').update(s).digest(): the digest is computed by
\* the runtime's crypto library, not by this repository.  It is represented
\* by a fixed deterministic function of the UTF-8 bytes of s that yields
\* DigestLength bytes: a running checksum of the bytes, spread over the
\* positions of the digest.
RECURSIVE Checksum(_, _)
Checksum(s, k) ==
  IF k = 0 THEN 7 ELSE (Checksum(s, k - 1) * 131 + Code(s[k])) % 65521

\* A digest taken from one Hash object that the instance keeps and feeds in
\* every call: what was hashed before the remembered call changes it.
SHA256_SharedHash(s) ==
  LET h == Checksum(s, Len(s)) + (IF first.op = "none" THEN 0 ELSE 1)
  IN [i \in 1..DigestLength |-> (h \div i + h * (2 * i + 1) + i * i) % 256]

SHA256(s) ==
  LET h == Checksum(s, Len(s))
  IN [i \in 1..DigestLength |-> (h \div i + h * (2 * i + 1) + i * i) % 256]

\* hashString without its check for a blank string.
hashString_NoBlankCheck(s) ==
  IF s.tag # "string" THEN Throw("String is null.")
  ELSE ReturnBytes(SHA256(s.chars))

hashString(s) ==
  IF s.tag # "string" THEN Throw("String is null.")
  ELSE IF Trim(s.chars) = <<>> THEN Throw("String is empty or blank.")
  ELSE ReturnBytes(SHA256(s.chars))

NullBuffer == [tag |-> "null", bytes |-> <<>>]

UndefinedBuffer == [tag |-> "undefined", bytes |-> <<>>]

BufferValue(b) == [tag |-> "buffer", bytes |-> b]

HexDigits ==
  <<"0","1","2","3","4","5","6","7","8","9","a","b","c","d","e","f">>

\* A conversion to hexadecimal that writes no leading zero: a byte below 16
\* gives one character.
RECURSIVE ToHex_NoPad(_)
ToHex_NoPad(b) ==
  IF b = <<>> THEN <<>>
  ELSE (IF Head(b) < 16 THEN <<>> ELSE <<HexDigits[(Head(b) \div 16) + 1]>>)
         \o <<HexDigits[(Head(b) % 16) + 1]>> \o ToHex_NoPad(Tail(b))

\* bytes.toString('hex')
ToHex(b) ==
  [i \in 1..(2 * Len(b)) |->
     IF i % 2 = 1 THEN HexDigits[(b[(i + 1) \div 2] \div 16) + 1]
     ELSE HexDigits[(b[i \div 2] % 16) + 1]]

\* hexEncode without its check for a zero-length Buffer.
hexEncode_NoEmptyCheck(bytes) ==
  IF bytes.tag # "buffer" THEN Throw("Byte array is null.")
  ELSE Return(ToHex(bytes.bytes))

hexEncode(bytes) ==
  IF bytes.tag # "buffer" THEN Throw("Byte array is null.")
  ELSE IF Len(bytes.bytes) = 0 THEN Throw("Byte array is empty.")
  ELSE Return(ToHex(bytes.bytes))

Base64Alphabet == UpperCase \o LowerCase \o DigitChars \o <<"+", "/">>

B64(n) == Base64Alphabet[n + 1]

\* bytes.toString('base64'): three bytes give four characters, and a last
\* group of one or two bytes is padded with '='.
ToBase64(b) ==
  [i \in 1..(4 * ((Len(b) + 2) \div 3)) |->
     LET at3 == 3 * ((i - 1) \div 4)
         b1 == b[at3 + 1]
         b2 == IF at3 + 2 <= Len(b) THEN b[at3 + 2] ELSE 0
         b3 == IF at3 + 3 <= Len(b) THEN b[at3 + 3] ELSE 0
     IN CASE i % 4 = 1 -> B64(b1 \div 4)
          [] i % 4 = 2 -> B64((b1 % 4) * 16 + b2 \div 16)
          [] i % 4 = 3 -> IF at3 + 2 <= Len(b)
                          THEN B64((b2 % 16) * 4 + b3 \div 64) ELSE "="
          [] OTHER -> IF at3 + 3 <= Len(b) THEN B64(b3 % 64) ELSE "="]

base64Encode(bytes) ==
  IF bytes.tag # "buffer" THEN Throw("Byte array is null.")
  ELSE IF Len(bytes.bytes) = 0 THEN Throw("Byte array is empty.")
  ELSE Return(ToBase64(bytes.bytes))

(***************************************************************************)
(* The process operations.  A thrown Error propagates: the stages after    *)
(* the one that threw are not evaluated.                                   *)
(***************************************************************************)
encode(bytes, encoding) ==
  IF encoding = "hex" THEN hexEncode(bytes)
  ELSE IF encoding = "base64" THEN base64Encode(bytes)
  ELSE Throw("Invalid encoding")

\* hashAndEncode that encodes the bytes of the string itself, not its digest.
hashAndEncode_NoHash(normalizedString, encoding) ==
  encode(BufferValue([i \in 1..Len(normalizedString) |->
                        Code(normalizedString[i])]), encoding)

hashAndEncode(normalizedString, encoding) ==
  LET hashBytes == hashString(StringValue(normalizedString)) IN
  IF hashBytes.kind = "throw" THEN hashBytes
  ELSE encode(BufferValue(hashBytes.bytes), encoding)

\* this.hashAndEncode(this.formatX(raw), encoding): the argument is
\* evaluated first, and hashAndEncode is not entered when it throws.
ThenHashAndEncode_EncodingFirst(normalized, encoding) ==
  IF encoding \notin {"hex", "base64"} THEN Throw("Invalid encoding")
  ELSE IF normalized.kind = "throw" THEN normalized
  ELSE hashAndEncode(normalized.str, encoding)

ThenHashAndEncode(normalized, encoding) ==
  IF normalized.kind = "throw" THEN normalized
  ELSE hashAndEncode(normalized.str, encoding)

processEmailAddress(email, encoding) ==
  ThenHashAndEncode(formatEmailAddress(email), encoding)

processPhoneNumber(phoneNumber, encoding) ==
  ThenHashAndEncode(formatPhoneNumber(phoneNumber), encoding)

processGivenName(givenName, encoding) ==
  ThenHashAndEncode(formatGivenName(givenName), encoding)

processFamilyName(familyName, encoding) ==
  ThenHashAndEncode(formatFamilyName(familyName), encoding)

processRegionCode(regionCode) == formatRegionCode(regionCode)

processPostalCode(postalCode) == formatPostalCode(postalCode)

(***************************************************************************)
(* The callers of the formatter: a raw value for one field category is     *)
(* put together, and the operations of that category are called on it.     *)
(***************************************************************************)
IdentifierFields == {"email", "phone", "givenName", "familyName"}

GeoFields == {"regionCode", "postalCode"}

Fields == IdentifierFields \cup GeoFields \cup {"text", "bytes"}

\* The values of the Encoding enum, and a value outside it that a cast
\* lets through.
Encodings == {"hex", "base64", "utf8"}

\* The bytes the Buffers of the model are put together from: the smallest
\* and the largest byte, bytes below and from 16, and bytes with mixed bits.
ByteChoices == {0, 10, 16, 171, 239, 255}

\* The pieces the raw inputs of the model are put together from.
InputChunks(f) ==
  CASE f = "email" ->
         { <<" ">>, <<"\t">>, <<"A","b">>, <<".">>, <<"@">>,
           <<"g","m","a","i","l",".","c","o","m">>,
           <<"G","o","o","g","l","e","M","a","i","l",".","c","o","m">>,
           <<"X",".","o","r","g">> }
    [] f = "phone" ->
         { <<" ">>, <<"+">>, <<"1">>, <<"-">>, <<"2","0">>, <<"x">> }
    [] f = "givenName" ->
         { <<" ">>, <<"\t">>, <<"M","r",".">>, <<"m","r","s",".">>,
           <<"M","s",".">>, <<"d","r",".">>, <<"M","r">>, <<"A","l">> }
    [] f = "familyName" ->
         { <<" ">>, <<",">>, <<"Q","u">>, <<"J","r",".">>,
           <<"d","d","s">>, <<"M","D",".">>, <<",", " ", "I", "I">> }
    [] f = "regionCode" ->
         { <<" ">>, <<"u">>, <<"S">>, <<"2">>, <<"ß">> }
    [] f = "postalCode" ->
         { <<" ">>, <<"\n">>, <<"9">>, <<"-">>, <<"a">> }
    [] f = "text" ->
         { <<" ">>, <<"\t">>, <<"a">>, <<"+">> }

FormatOp(f) ==
  CASE f = "email" -> "formatEmailAddress"
    [] f = "phone" -> "formatPhoneNumber"
    [] f = "givenName" -> "formatGivenName"
    [] f = "familyName" -> "formatFamilyName"
    [] f = "regionCode" -> "formatRegionCode"
    [] f = "postalCode" -> "formatPostalCode"
    [] OTHER -> "none"

ProcessOp(f) ==
  CASE f = "email" -> "processEmailAddress"
    [] f = "phone" -> "processPhoneNumber"
    [] f = "givenName" -> "processGivenName"
    [] f = "familyName" -> "processFamilyName"
    [] f = "regionCode" -> "processRegionCode"
    [] f = "postalCode" -> "processPostalCode"
    [] OTHER -> "none"

\* formatter.formatX(x) for the field category f
Format(f, x) ==
  CASE f = "email" -> formatEmailAddress(x)
    [] f = "phone" -> formatPhoneNumber(x)
    [] f = "givenName" -> formatGivenName(x)
    [] f = "familyName" -> formatFamilyName(x)
    [] f = "regionCode" -> formatRegionCode(x)
    [] f = "postalCode" -> formatPostalCode(x)

\* formatter.processX(x, e) for the field category f
Process(f, x, e) ==
  CASE f = "email" -> processEmailAddress(x, e)
    [] f = "phone" -> processPhoneNumber(x, e)
    [] f = "givenName" -> processGivenName(x, e)
    [] f = "familyName" -> processFamilyName(x, e)
    [] f = "regionCode" -> processRegionCode(x)
    [] f = "postalCode" -> processPostalCode(x)

\* No sample runs.
NoSample ==
  /\ sample = "none"
  /\ rows = <<>>
  /\ at = "none"
  /\ rowIx = 1
  /\ records = <<>>
  /\ warnings = <<>>
  /\ batchStart = 0
  /\ requestCount = 0
  /\ sent = <<>>

\* No suffix loop is followed round by round.
NoLoop ==
  /\ trimmedName = <<>>
  /\ nameLeft = <<>>
  /\ rounds = 0
  /\ loopAt = "none"

\* No call of the formatter instance is remembered.
NoCall ==
  [op |-> "none", enc |-> "none", raw |-> NullValue, buf |-> NullBuffer,
   out |-> NoResult, others |-> FALSE]

Init ==
  /\ field \in Fields
  /\ raw \in IF field = "bytes" THEN {NullValue}
             ELSE {NullValue, UndefinedValue, StringValue(<<>>)}
  /\ buf \in IF field = "bytes"
             THEN {NullBuffer, UndefinedBuffer, BufferValue(<<>>)}
             ELSE {NullBuffer}
  /\ nchunks = 0
  /\ pc = "idle"
  /\ op = "none"
  /\ enc = "none"
  /\ result = NoResult
  /\ fed = FALSE
  /\ prev = NoResult
  /\ first = NoCall
  /\ NoSample
  /\ NoLoop

\* The caller extends the raw value by one piece.
AppendChunk ==
  /\ pc = "idle"
  /\ raw.tag = "string"
  /\ nchunks < MaxChunks
  /\ \E c \in InputChunks(field) : raw' = StringValue(raw.chars \o c)
  /\ nchunks' = nchunks + 1
  /\ UNCHANGED <<sampleVars, loopVars, field, first, buf, pc, op, enc, result, fed, prev>>

\* formatter.formatX(raw)
CallFormat ==
  /\ pc = "idle"
  /\ field \in IdentifierFields \cup GeoFields
  /\ op' = FormatOp(field)
  /\ enc' = "none"
  /\ result' = Format(field, raw)
  /\ pc' = "done"
  /\ UNCHANGED <<sampleVars, loopVars, field, first, buf, raw, nchunks, fed, prev>>

\* formatter.processX(raw, encoding) for an identifier field
CallProcess ==
  /\ pc = "idle"
  /\ field \in IdentifierFields
  /\ \E e \in Encodings :
       /\ enc' = e
       /\ result' = Process(field, raw, e)
  /\ op' = ProcessOp(field)
  /\ pc' = "done"
  /\ UNCHANGED <<sampleVars, loopVars, field, first, buf, raw, nchunks, fed, prev>>

\* formatter.processRegionCode(raw), formatter.processPostalCode(raw)
CallProcessGeo ==
  /\ pc = "idle"
  /\ field \in GeoFields
  /\ op' = ProcessOp(field)
  /\ enc' = "none"
  /\ result' = Process(field, raw, "none")
  /\ pc' = "done"
  /\ UNCHANGED <<sampleVars, loopVars, field, first, buf, raw, nchunks, fed, prev>>

\* formatter.hashString(raw)
CallHashString ==
  /\ pc = "idle"
  /\ field = "text"
  /\ op' = "hashString"
  /\ enc' = "none"
  /\ result' = hashString(raw)
  /\ pc' = "done"
  /\ UNCHANGED <<sampleVars, loopVars, field, first, buf, raw, nchunks, fed, prev>>

\* The caller extends the Buffer by one byte.
AppendByte ==
  /\ pc = "idle"
  /\ field = "bytes"
  /\ buf.tag = "buffer"
  /\ Len(buf.bytes) < MaxBytes
  /\ \E b \in ByteChoices : buf' = BufferValue(Append(buf.bytes, b))
  /\ UNCHANGED <<sampleVars, loopVars, field, first, raw, nchunks, pc, op, enc, result, fed, prev>>

\* formatter.hexEncode(buf)
CallHexEncode ==
  /\ pc = "idle"
  /\ field = "bytes"
  /\ op' = "hexEncode"
  /\ enc' = "none"
  /\ result' = hexEncode(buf)
  /\ pc' = "done"
  /\ UNCHANGED <<sampleVars, loopVars, field, first, raw, buf, nchunks, fed, prev>>

\* formatter.base64Encode(buf)
CallBase64Encode ==
  /\ pc = "idle"
  /\ field = "bytes"
  /\ op' = "base64Encode"
  /\ enc' = "none"
  /\ result' = base64Encode(buf)
  /\ pc' = "done"
  /\ UNCHANGED <<sampleVars, loopVars, field, first, raw, buf, nchunks, fed, prev>>

\* The caller passes the value a normalizer returned to the same normalizer
\* again: formatX(formatX(raw)).
Refeed ==
  /\ pc = "done"
  /\ ~fed
  /\ op = FormatOp(field)
  /\ result.kind = "return"
  /\ raw' = StringValue(result.str)
  /\ prev' = result
  /\ result' = Format(field, StringValue(result.str))
  /\ fed' = TRUE
  /\ nchunks' = MaxChunks
  /\ UNCHANGED <<sampleVars, loopVars, field, first, buf, pc, op, enc>>

\* The call is over; the caller may go on with the same raw value.
FinishCall ==
  /\ pc = "done"
  /\ pc' = "idle"
  /\ op' = "none"
  /\ enc' = "none"
  /\ result' = NoResult
  /\ fed' = FALSE
  /\ prev' = NoResult
  /\ UNCHANGED <<sampleVars, loopVars, field, buf, raw, nchunks>>

Finish == FinishCall /\ UNCHANGED first

Next ==
  \/ AppendChunk
  \/ CallFormat
  \/ CallProcess
  \/ CallProcessGeo
  \/ CallHashString
  \/ AppendByte
  \/ CallHexEncode
  \/ CallBase64Encode
  \/ Refeed
  \/ Finish

Spec == Init /\ [][Next]_vars

(***************************************************************************)
(* One formatter instance serves a series of calls: the caller remembers   *)
(* one finished call, goes on with calls on other values and other         *)
(* fields, and calls again with the remembered arguments.                  *)
(***************************************************************************)
\* A raw value of the field category f that the normalizer accepts.
SampleValue(f) ==
  CASE f = "email" -> <<"A","b",".","c","@","G","m","a","i","l",".","c","o","m">>
    [] f = "phone" -> <<"+","1"," ","(","2",")","-","0">>
    [] f = "givenName" -> <<"M","r","."," ","A","l">>
    [] f = "familyName" -> <<"Q","u",","," ","J","r",".">>
    [] f = "regionCode" -> <<" ","u","S">>
    [] f = "postalCode" -> <<"9","-","a","\n">>
    [] f = "text" -> <<"a"," ","+">>

\* The raw values of a series of calls: null, undefined, the empty string,
\* every single piece of InputChunks and one accepted value.
RepeatInputs(f) ==
  IF f = "bytes" THEN {NullValue}
  ELSE {NullValue, UndefinedValue, StringValue(<<>>), StringValue(SampleValue(f))}
         \cup {StringValue(c) : c \in InputChunks(f)}

\* The Buffers of a series of calls.
RepeatBuffers(f) ==
  IF f = "bytes"
  THEN {NullBuffer, UndefinedBuffer, BufferValue(<<>>)}
         \cup {BufferValue(<<b>>) : b \in ByteChoices}
         \cup {BufferValue(<<171, b>>) : b \in ByteChoices}
  ELSE {NullBuffer}

InitRepeat ==
  /\ field \in Fields
  /\ raw \in RepeatInputs(field)
  /\ buf \in RepeatBuffers(field)
  /\ nchunks = 0
  /\ pc = "idle"
  /\ op = "none"
  /\ enc = "none"
  /\ result = NoResult
  /\ fed = FALSE
  /\ prev = NoResult
  /\ first = NoCall
  /\ NoSample
  /\ NoLoop

\* The caller turns to another value, of any field category.
OtherInput ==
  /\ pc = "idle"
  /\ field' \in Fields
  /\ raw' \in RepeatInputs(field')
  /\ buf' \in RepeatBuffers(field')
  /\ UNCHANGED <<sampleVars, loopVars, nchunks, pc, op, enc, result, fed, prev, first>>

SameCall == first.op = op /\ first.enc = enc /\ first.raw = raw /\ first.buf = buf

\* The call is over, and the caller remembers it: the operation, its
\* arguments and its outcome.
RememberCall ==
  /\ first = NoCall
  /\ FinishCall
  /\ first' = [op |-> op, enc |-> enc, raw |-> raw, buf |-> buf,
               out |-> result, others |-> FALSE]

\* The call is over; a call that is not the remembered one is noted as a
\* call in between.
FinishRepeat ==
  /\ FinishCall
  /\ first' = IF first = NoCall \/ SameCall THEN first
              ELSE [first EXCEPT !.others = TRUE]

NextRepeat ==
  \/ OtherInput
  \/ CallFormat
  \/ CallProcess
  \/ CallProcessGeo
  \/ CallHashString
  \/ CallHexEncode
  \/ CallBase64Encode
  \/ RememberCall
  \/ FinishRepeat

SpecRepeat == InitRepeat /\ [][NextRepeat]_vars

(***************************************************************************)
(* The two ingestion samples.  main reads the rows of the input file,      *)
(* builds one record (an event, an audience member) per row it keeps, and  *)
(* sends the records in requests of a bounded size.  The command-line      *)
(* arguments are valid and every request is answered.                      *)
(***************************************************************************)
MAX_EVENTS_PER_REQUEST == 10000

MAX_MEMBERS_PER_REQUEST == 10000

\* The most rows of an input file whose rows are followed one by one.
MaxRows == 2

\* The most full requests of a run whose send loop is followed.
MaxFullRequests == 4

Samples == {"events", "audiences"}

MaxPerRequest(s) ==
  IF s = "events" THEN MAX_EVENTS_PER_REQUEST ELSE MAX_MEMBERS_PER_REQUEST

\* A JavaScript number: NaN or an integer.
NaN == [nan |-> TRUE, n |-> 0]

Number(n) == [nan |-> FALSE, n |-> n]

\* The timestamp strings of the rows: one that Date parses and one that it
\* does not parse.
Timestamps == {"1970-01-01T00:00:01.250Z", "yesterday at noon"}

\* new Date(timestamp).getTime(): the time value in milliseconds of a string
\* that Date parses, and NaN for every other string.  The Date constructor
\* does not throw for a string it cannot parse: it makes an Invalid Date.
GetTime(timestamp) ==
  IF timestamp = "1970-01-01T00:00:01.250Z" THEN Number(1250) ELSE NaN

\* The try block of the row loop: the outcome is the eventTimestamp, or a
\* throw.  Math.floor, / and % of NaN give NaN, and none of them throws.
EventTimestamp(timestamp) ==
  LET time == GetTime(timestamp) IN
  [kind |-> "return",
   seconds |-> IF time.nan THEN NaN ELSE Number(time.n \div 1000),
   nanos |-> IF time.nan THEN NaN ELSE Number((time.n % 1000) * 1000000)]

\* The names of the EventSource enum that the rows use.
EventSourceNames == {"WEB"}

\* formatter.processEmailAddress(value, Encoding.HEX) and
\* formatter.processPhoneNumber(value, Encoding.HEX)
ProcessIdentifier(kind, value) ==
  IF kind = "emailAddress"
  THEN processEmailAddress(StringValue(value), "hex")
  ELSE processPhoneNumber(StringValue(value), "hex")

\* The loop over the values of one kind that stops at the first value the
\* formatter rejects.
RECURSIVE AddUserIdentifiers_StopAtRejected(_, _, _)
AddUserIdentifiers_StopAtRejected(userIdentifiers, kind, values) ==
  IF values = <<>> THEN userIdentifiers
  ELSE LET processed == ProcessIdentifier(kind, Head(values)) IN
       IF processed.kind = "throw" THEN userIdentifiers
       ELSE AddUserIdentifiers_StopAtRejected(
              Append(userIdentifiers, [kind |-> kind, value |-> processed.str]),
              kind, Tail(values))

\* for (const value of values) { try { push(process(value)) } catch {} }:
\* userIdentifiers after the loop over the values of one kind.
RECURSIVE AddUserIdentifiers(_, _, _)
AddUserIdentifiers(userIdentifiers, kind, values) ==
  IF values = <<>> THEN userIdentifiers
  ELSE LET processed == ProcessIdentifier(kind, Head(values)) IN
       AddUserIdentifiers(
         IF processed.kind = "throw" THEN userIdentifiers
         ELSE Append(userIdentifiers, [kind |-> kind, value |-> processed.str]),
         kind, Tail(values))

\* The warnings of the loop over the values of one kind in ingest_events.
RECURSIVE IdentifierWarnings(_, _, _, _)
IdentifierWarnings(k, kind, message, values) ==
  IF values = <<>> THEN <<>>
  ELSE (IF ProcessIdentifier(kind, Head(values)).kind = "throw"
        THEN <<[row |-> k, message |-> message]>> ELSE <<>>)
         \o IdentifierWarnings(k, kind, message, Tail(values))

\* userData.userIdentifiers after the two loops of a row: the email
\* addresses first, the phone numbers after them.
UserIdentifiers(row) ==
  AddUserIdentifiers(
    AddUserIdentifiers(<<>>, "emailAddress", row.emails),
    "phoneNumber", row.phoneNumbers)

\* A record built from row k of the input file.
Record(k, eventTimestamp, userIdentifiers) ==
  [row |-> k, eventTimestamp |-> eventTimestamp,
   userIdentifiers |-> userIdentifiers]

NoTimestamp == [kind |-> "none", seconds |-> NaN, nanos |-> NaN]

\* One round of the row loop of ingest_events: the row is skipped with a
\* warning, or its event is pushed.
EventRowOutcome(eventRow, k) ==
  LET eventTimestamp == EventTimestamp(eventRow.timestamp)
      skip(message) ==
        [push |-> FALSE, record |-> Record(k, NoTimestamp, <<>>),
         warnings |-> <<[row |-> k, message |-> message]>>]
  IN
  IF eventTimestamp.kind = "throw"
  THEN skip("Invalid timestamp format. Skipping row.")
  ELSE IF eventRow.transactionId = ""
  THEN skip("Skipping event with no transaction ID")
  ELSE IF eventRow.eventSource # ""
          /\ eventRow.eventSource \notin EventSourceNames
  THEN skip("Skipping event with invalid event_source")
  ELSE [push |-> TRUE,
        record |-> Record(k, eventTimestamp, UserIdentifiers(eventRow)),
        warnings |->
          IdentifierWarnings(k, "emailAddress",
                             "Invalid email address. Skipping.",
                             eventRow.emails)
            \o IdentifierWarnings(k, "phoneNumber", "Invalid phone. Skipping.",
                                  eventRow.phoneNumbers)]

\* One round of the row loop of ingest_audience_members: the member is
\* pushed when it has a user identifier, and the line is ignored otherwise.
MemberRowOutcome(memberRow, k) ==
  LET userIdentifiers == UserIdentifiers(memberRow) IN
  IF Len(userIdentifiers) > 0
  THEN [push |-> TRUE, record |-> Record(k, NoTimestamp, userIdentifiers),
        warnings |-> <<>>]
  ELSE [push |-> FALSE, record |-> Record(k, NoTimestamp, <<>>),
        warnings |-> <<[row |-> k, message |-> "Ignoring line. No data."]>>]

Min(a, b) == IF a < b THEN a ELSE b

\* A slice that takes the element at end too.
Slice_EndInclusive(s, start, end) == SubStr(s, start + 1, Min(end + 1, Len(s)))

\* Array.prototype.slice(start, end) for 0 <= start <= end
Slice(s, start, end) == SubStr(s, start + 1, Min(end, Len(s)))

\* The email and phone lists of the rows: none, one that the formatter
\* rejects, and rejected and accepted values mixed.
EmailLists ==
  { <<>>,
    << <<"A","b">> >>,
    << SampleValue("email"), <<"A","b">>, <<"A","b","@","X",".","o","r","g">> >> }

PhoneLists ==
  { <<>>, << <<"x">> >>, << <<"x">>, SampleValue("phone") >> }

Row(timestamp, transactionId, eventSource, emails, phoneNumbers) ==
  [timestamp |-> timestamp, transactionId |-> transactionId,
   eventSource |-> eventSource, emails |-> emails,
   phoneNumbers |-> phoneNumbers]

\* The rows of the JSON file of ingest_events.
EventRows ==
  {Row(ts, tx, es, <<SampleValue("email")>>, <<<<"x">>>>) :
     ts \in Timestamps, tx \in {"", "t-1"}, es \in {"", "WEB", "BOGUS"}}
    \cup {Row("1970-01-01T00:00:01.250Z", "t-1", "", em, ph) :
            em \in EmailLists, ph \in PhoneLists}

\* The rows readMemberDataFile returns: email and phone columns only, and
\* at least one value in a row.
MemberRows ==
  {Row("", "", "", em, ph) : em \in EmailLists, ph \in PhoneLists}
    \ {Row("", "", "", <<>>, <<>>)}

RowChoices(s) == IF s = "events" THEN EventRows ELSE MemberRows

\* The formatter of the sample is made and no call is in progress.
FormatterIdle ==
  /\ field = "text"
  /\ raw = NullValue
  /\ buf = NullBuffer
  /\ nchunks = 0
  /\ pc = "idle"
  /\ op = "none"
  /\ enc = "none"
  /\ result = NoResult
  /\ fed = FALSE
  /\ prev = NoResult
  /\ first = NoCall

\* main has read the rows of the input file.
InitRows ==
  /\ FormatterIdle
  /\ NoLoop
  /\ sample \in Samples
  /\ \E n \in 0..MaxRows : rows \in [1..n -> RowChoices(sample)]
  /\ at = "rows"
  /\ rowIx = 1
  /\ records = <<>>
  /\ warnings = <<>>
  /\ batchStart = 0
  /\ requestCount = 0
  /\ sent = <<>>

\* One round of the row loop of ingest_events.
ProcessEventRow ==
  /\ sample = "events"
  /\ at = "rows"
  /\ rowIx <= Len(rows)
  /\ LET outcome == EventRowOutcome(rows[rowIx], rowIx) IN
     /\ records' = IF outcome.push THEN Append(records, outcome.record)
                   ELSE records
     /\ warnings' = warnings \o outcome.warnings
  /\ rowIx' = rowIx + 1
  /\ UNCHANGED <<formatterVars, loopVars, sample, rows, at, batchStart, requestCount,
                 sent>>

\* One round of the row loop of ingest_audience_members.
ProcessMemberRow ==
  /\ sample = "audiences"
  /\ at = "rows"
  /\ rowIx <= Len(rows)
  /\ LET outcome == MemberRowOutcome(rows[rowIx], rowIx) IN
     /\ records' = IF outcome.push THEN Append(records, outcome.record)
                   ELSE records
     /\ warnings' = warnings \o outcome.warnings
  /\ rowIx' = rowIx + 1
  /\ UNCHANGED <<formatterVars, loopVars, sample, rows, at, batchStart, requestCount,
                 sent>>

\* The row loop is over: main sets up the destination and the client and
\* enters the send loop with i = 0 and requestCount = 0.
StartSending ==
  /\ at = "rows"
  /\ rowIx > Len(rows)
  /\ at' = "send"
  /\ batchStart' = 0
  /\ requestCount' = 0
  /\ UNCHANGED <<formatterVars, loopVars, sample, rows, rowIx, records, warnings, sent>>

\* One round of the send loop: the next records, at most the maximum per
\* request, are sent in one request.
SendBatch ==
  /\ at = "send"
  /\ batchStart < Len(records)
  /\ requestCount' = requestCount + 1
  /\ sent' = Append(sent, Slice(records, batchStart,
                                batchStart + MaxPerRequest(sample)))
  /\ batchStart' = batchStart + MaxPerRequest(sample)
  /\ UNCHANGED <<formatterVars, loopVars, sample, rows, at, rowIx, records, warnings>>

\* The send loop is over: main writes the number of requests.
EndOfRun ==
  /\ at = "send"
  /\ batchStart >= Len(records)
  /\ at' = "end"
  /\ UNCHANGED <<formatterVars, loopVars, sample, rows, rowIx, records, warnings,
                 batchStart, requestCount, sent>>

NextRows ==
  \/ ProcessEventRow
  \/ ProcessMemberRow
  \/ StartSending
  \/ SendBatch
  \/ EndOfRun

SpecRows == InitRows /\ [][NextRows]_vars

\* The numbers of records of the runs whose send loop is followed: none, a
\* few, and one less than, exactly and one more than a number of full
\* requests.
BatchSizes(s) ==
  (0..3) \cup {k * MaxPerRequest(s) + d : k \in 1..MaxFullRequests, d \in {-1, 0, 1}}

\* main is at the send loop, with the records of a file of n rows that each
\* gave a record.  The send loop does not look into a record, so a row and
\* its record are written as the number of the row.
InitBatch ==
  /\ FormatterIdle
  /\ NoLoop
  /\ sample \in Samples
  /\ \E n \in BatchSizes(sample) :
       /\ rows = [k \in 1..n |-> k]
       /\ records = [k \in 1..n |-> k]
       /\ rowIx = n + 1
  /\ at = "send"
  /\ warnings = <<>>
  /\ batchStart = 0
  /\ requestCount = 0
  /\ sent = <<>>

NextBatch ==
  \/ SendBatch
  \/ EndOfRun

SpecBatch == InitBatch /\ [][NextBatch]_vars

(***************************************************************************)
(* The suffix loop of formatFamilyName, one round at a time.               *)
(***************************************************************************)
\* The most pieces of a family name whose suffix loop is followed.
MaxPieces == 3

\* The pieces the family names of the loop are built from: white space, a
\* comma, a stem, a suffix of one character, and suffixes with a separator
\* in front.
LoopChunks ==
  { <<" ">>, <<"\t">>, <<",">>, <<"Q","u">>, <<"V">>,
    <<" ","J","r",".">>, <<",", " ", "I", "I">>, <<" ","m","d">> }

\* The strings of at most n pieces.
RECURSIVE LoopNames(_)
LoopNames(n) ==
  IF n = 0 THEN { <<>> }
  ELSE LET shorter == LoopNames(n - 1) IN
       shorter \cup {s \o c : s \in shorter, c \in LoopChunks}

\* formatFamilyName is called with a family name.
InitLoop ==
  /\ field = "familyName"
  /\ raw \in {NullValue, UndefinedValue}
               \cup {StringValue(s) : s \in LoopNames(MaxPieces)}
  /\ buf = NullBuffer
  /\ nchunks = 0
  /\ pc = "idle"
  /\ op = "none"
  /\ enc = "none"
  /\ result = NoResult
  /\ fed = FALSE
  /\ prev = NoResult
  /\ first = NoCall
  /\ NoSample
  /\ trimmedName = <<>>
  /\ nameLeft = <<>>
  /\ rounds = 0
  /\ loopAt = "entry"

\* The checks before the loop: a falsy or blank family name is thrown
\* out, any other is trimmed and lower-cased and becomes the working string.
EnterLoop ==
  /\ loopAt = "entry"
  /\ LET trimmedFamilyName == ToLowerCase(Trim(raw.chars)) IN
       IF Falsy(raw)
       THEN /\ result' = Throw("Family name is null or empty.")
            /\ loopAt' = "done"
            /\ UNCHANGED <<trimmedName, nameLeft>>
       ELSE IF trimmedFamilyName = <<>>
       THEN /\ result' = Throw("Family name is empty or blank.")
            /\ loopAt' = "done"
            /\ UNCHANGED <<trimmedName, nameLeft>>
       ELSE /\ trimmedName' = trimmedFamilyName
            /\ nameLeft' = trimmedFamilyName
            /\ loopAt' = "test"
            /\ UNCHANGED result
  /\ UNCHANGED <<sampleVars, field, raw, buf, nchunks, pc, op, enc, fed, prev,
                 first, rounds>>

\* The test of the loop succeeds and the body runs once.
LoopRound ==
  /\ loopAt = "test"
  /\ SuffixTest(nameLeft)
  /\ nameLeft' = SuffixReplace(nameLeft)
  /\ rounds' = rounds + 1
  /\ UNCHANGED <<formatterVars, sampleVars, trimmedName, loopAt>>

\* The test of the loop fails: the method throws on an empty working string
\* and returns any other.
LoopExit ==
  /\ loopAt = "test"
  /\ ~SuffixTest(nameLeft)
  /\ result' = IF nameLeft = <<>>
               THEN Throw("Family name consists solely of a suffix.")
               ELSE Return(nameLeft)
  /\ loopAt' = "done"
  /\ UNCHANGED <<sampleVars, field, raw, buf, nchunks, pc, op, enc, fed, prev,
                 first, trimmedName, nameLeft, rounds>>

NextLoop ==
  \/ EnterLoop
  \/ LoopRound
  \/ LoopExit

\* A call that has begun runs on: nothing but the method itself decides
\* whether its next step is taken.
SpecLoop == InitLoop /\ [][NextLoop]_vars /\ WF_vars(NextLoop)

(***************************************************************************)
(* Properties.                                                             *)
(***************************************************************************)
FormatOps ==
  {"formatEmailAddress", "formatPhoneNumber", "formatGivenName",
   "formatFamilyName", "formatRegionCode", "formatPostalCode"}

IdentifierProcessOps ==
  {"processEmailAddress", "processPhoneNumber", "processGivenName",
   "processFamilyName"}

GeoProcessOps == {"processRegionCode", "processPostalCode"}

IsBlank(s) == \A i \in 1..Len(s) : s[i] \in WhiteSpace

\* C1: a process operation on an identifier field returns the encoding
\* (hex or base64, as selected) of the digest of the normalized raw value:
\* format first, then hash, then encode; and processRegionCode and
\* processPostalCode return what formatRegionCode and formatPostalCode
\* return, neither hashed nor encoded.
C1_ProcessComposition ==
  /\ (pc = "done" /\ op \in IdentifierProcessOps /\ enc \in {"hex", "base64"}) =>
       LET normalized == Format(field, raw) IN
       IF normalized.kind = "throw" THEN result = normalized
       ELSE LET digest == hashString(StringValue(normalized.str)) IN
            /\ digest.kind = "return"
            /\ digest.bytes = SHA256(normalized.str)
            /\ result = IF enc = "hex"
                        THEN hexEncode(BufferValue(digest.bytes))
                        ELSE base64Encode(BufferValue(digest.bytes))
            /\ result.kind = "return"
  /\ (pc = "done" /\ op \in GeoProcessOps) => result = Format(field, raw)

C1_Witness ==
  /\ pc = "done"
  /\ op = "processEmailAddress"
  /\ enc = "base64"
  /\ result.kind = "return"
  /\ Len(result.str) = 44

\* C2: a process operation on an identifier field fails with the failure of
\* the first stage that fails and returns nothing then; an encoding other
\* than hex and base64 fails; when the normalizer rejects the raw value the
\* failure is the normalizer's whatever the encoding, and the failure for
\* the encoding is reported only when normalizing and hashing succeeded.
C2_FailFast ==
  (pc = "done" /\ op \in IdentifierProcessOps) =>
    LET normalized == Format(field, raw) IN
    /\ normalized.kind = "throw" => result = normalized
    /\ (normalized.kind = "return" /\ enc \notin {"hex", "base64"}) =>
         result = Throw("Invalid encoding")
    /\ result.kind = "throw" => (result.str = <<>> /\ result.bytes = <<>>)
    /\ result.msg = "Invalid encoding" =>
         /\ normalized.kind = "return"
         /\ hashString(StringValue(normalized.str)).kind = "return"
         /\ enc \notin {"hex", "base64"}

C2_Witness ==
  /\ pc = "done"
  /\ op = "processPhoneNumber"
  /\ enc = "utf8"
  /\ raw.tag = "string"
  /\ raw.chars # <<>>
  /\ result = Throw("Phone number contains no digits.")

\* C3: each of the six normalizers and hashString throws when its input is
\* null, undefined, the empty string or only whitespace.
C3_BlankInputThrows ==
  (/\ pc = "done"
   /\ op \in FormatOps \cup {"hashString"}
   /\ (raw.tag # "string" \/ IsBlank(raw.chars))) =>
    result.kind = "throw"

C3_Witness ==
  /\ pc = "done"
  /\ op = "hashString"
  /\ raw.tag = "string"
  /\ Len(raw.chars) = 2
  /\ IsBlank(raw.chars)
  /\ result.kind = "throw"

\* C4: every value a normalizer returns is non-empty, has no leading and no
\* trailing whitespace character, and is case-folded: no upper-case letter
\* in an email address, a given name or a family name, no lower-case letter
\* in a region code.
C4_NormalizedField ==
  (pc = "done" /\ op \in FormatOps /\ result.kind = "return") =>
    LET r == result.str IN
    /\ r # <<>>
    /\ r[1] \notin WhiteSpace
    /\ r[Len(r)] \notin WhiteSpace
    /\ op \in {"formatEmailAddress", "formatGivenName", "formatFamilyName"} =>
         \A i \in 1..Len(r) : ~IsUpper(r[i])
    /\ op = "formatRegionCode" => \A i \in 1..Len(r) : ~IsLower(r[i])

\* C5: formatEmailAddress throws whenever the trimmed input has a whitespace
\* character inside it, whichever whitespace character it is.
C5_InteriorWhitespaceRejected ==
  (/\ pc = "done"
   /\ op = "formatEmailAddress"
   /\ raw.tag = "string"
   /\ \E i \in 1..Len(Trim(raw.chars)) : Trim(raw.chars)[i] \in WhiteSpace) =>
    result.kind = "throw"

\* What the claims about formatEmailAddress speak of: the trimmed and
\* lower-cased input, the places of its '@', and the parts before and
\* after its first '@'.
EmailText == ToLowerCase(Trim(raw.chars))

AtPlaces == {i \in 1..Len(EmailText) : EmailText[i] = "@"}

FirstAt == CHOOSE i \in AtPlaces : \A j \in AtPlaces : i <= j

LocalPart == SubStr(EmailText, 1, FirstAt - 1)

DomainPart == SubStr(EmailText, FirstAt + 1, Len(EmailText))

WithoutDots(s) == SelectSeq(s, LAMBDA c : c # ".")

IsGmail(d) ==
  \/ d = <<"g","m","a","i","l",".","c","o","m">>
  \/ d = <<"g","o","o","g","l","e","m","a","i","l",".","c","o","m">>

EmailCalled ==
  pc = "done" /\ op = "formatEmailAddress" /\ raw.tag = "string"

EmailWellFormed ==
  Cardinality(AtPlaces) = 1 /\ LocalPart # <<>> /\ DomainPart # <<>>

\* C6 as stated: formatEmailAddress succeeds only for exactly one '@' with a
\* non-empty local part and a non-empty domain, throws otherwise, and on
\* success returns the lower-cased local part, '@', the lower-cased domain.
C6_AsStated ==
  EmailCalled =>
    /\ result.kind = "return" => EmailWellFormed
    /\ ~EmailWellFormed => result.kind = "throw"
    /\ result.kind = "return" =>
         result.str = LocalPart \o <<"@">> \o DomainPart

\* C6, amended: as C6, but on success the local part of the result is the
\* lower-cased local part with its '.' removed when the domain is gmail.com
\* or googlemail.com.
C6_EmailShape ==
  EmailCalled =>
    /\ result.kind = "return" => EmailWellFormed
    /\ ~EmailWellFormed => result.kind = "throw"
    /\ result.kind = "return" =>
         result.str =
           (IF IsGmail(DomainPart) THEN WithoutDots(LocalPart) ELSE LocalPart)
             \o <<"@">> \o DomainPart

C6_Witness ==
  /\ EmailCalled
  /\ raw.chars = <<" ","A","b","@","X",".","o","r","g">>
  /\ result = Return(<<"a","b","@","x",".","o","r","g">>)

\* C7: for the domains gmail.com and googlemail.com every '.' is removed
\* from the local part, and the call throws when nothing is left of it; for
\* any other domain the local part keeps its dots; the domain is returned
\* as it is (lower-cased).
C7_GmailDots ==
  (EmailCalled /\ EmailWellFormed) =>
    LET n == Len(result.str) - Len(DomainPart) - 1 IN
    /\ result.kind = "return" =>
         /\ n >= 1
         /\ SubStr(result.str, n + 1, Len(result.str)) = <<"@">> \o DomainPart
         /\ IsGmail(DomainPart) =>
              /\ \A i \in 1..n : result.str[i] # "."
              /\ SubStr(result.str, 1, n) = WithoutDots(LocalPart)
         /\ ~IsGmail(DomainPart) => SubStr(result.str, 1, n) = LocalPart
    /\ (IsGmail(DomainPart) /\ WithoutDots(LocalPart) = <<>>) =>
         result.kind = "throw"

C7_Witness ==
  /\ EmailCalled
  /\ raw.chars = <<"A","b",".","@","g","m","a","i","l",".","c","o","m">>
  /\ result = Return(<<"a","b","@","g","m","a","i","l",".","c","o","m">>)

\* What the claims about formatFamilyName speak of.
FamilyCalled ==
  /\ pc = "done"
  /\ op = "formatFamilyName"
  /\ raw.tag = "string"
  /\ ~IsBlank(raw.chars)

FamilyText == ToLowerCase(Trim(raw.chars))

StatedSuffixes ==
  { <<"j","r">>, <<"s","r">>, <<"2","n","d">>, <<"3","r","d">>,
    <<"i","i">>, <<"i","i","i">>, <<"i","v">>, <<"v">>, <<"v","i">>,
    <<"c","p","a">>, <<"d","c">>, <<"d","d","s">>, <<"v","m">>,
    <<"j","d">>, <<"m","d">>, <<"p","h","d">> }

IsCommaOrSpaces(x) ==
  /\ x # <<>>
  /\ \A i \in 2..Len(x) : x[i] \in WhiteSpace
  /\ x[1] = "," \/ x[1] \in WhiteSpace

\* x is a separator and a suffix token, every token with or without a '.'.
SuffixAsStated(x) ==
  \E j \in 2..Len(x) :
    /\ IsCommaOrSpaces(SubStr(x, 1, j - 1))
    /\ \E tok \in StatedSuffixes :
         SubStr(x, j, Len(x)) \in {tok, tok \o <<".">>}

\* x is a separator, a suffix token, where only jr and sr may have a '.',
\* and at most one whitespace character.
SuffixAmended(x) ==
  \E j \in 2..Len(x) : \E k \in {Len(x) - 1, Len(x)} :
    /\ j <= k
    /\ IsCommaOrSpaces(SubStr(x, 1, j - 1))
    /\ \/ SubStr(x, j, k) \in StatedSuffixes
       \/ SubStr(x, j, k) \in { <<"j","r",".">>, <<"s","r",".">> }
    /\ k < Len(x) => x[Len(x)] \in WhiteSpace

IsPrefixOf(r, s) == Len(r) <= Len(s) /\ SubStr(s, 1, Len(r)) = r

RECURSIVE IsSuffixChain(_)
IsSuffixChain(x) ==
  \/ x = <<>>
  \/ \E i \in 1..Len(x) :
       SuffixAmended(SubStr(x, 1, i)) /\ IsSuffixChain(SubStr(x, i + 1, Len(x)))

NoSeparatorIn(s) == \A i \in 1..Len(s) : s[i] # "," /\ s[i] \notin WhiteSpace

\* C8 as stated: the result of formatFamilyName is the trimmed, lower-cased
\* input cut at its end; no suffix token, with or without a '.', preceded by
\* a comma or whitespace is left at the end of the result; a name without
\* comma and whitespace is kept whole; the call throws if nothing remains.
C8_AsStated ==
  FamilyCalled =>
    /\ IsPrefixOf(result.str, FamilyText)
    /\ \A i \in 1..Len(result.str) :
         ~SuffixAsStated(SubStr(result.str, i, Len(result.str)))
    /\ NoSeparatorIn(FamilyText) => result = Return(FamilyText)
    /\ result.kind = "return" => result.str # <<>>

\* C8, amended: only jr and sr may be followed by a '.', and a suffix may be
\* followed by at most one whitespace character.  The result is the
\* trimmed, lower-cased input cut at its end; what is cut off is a chain of
\* such suffixes, and no such suffix is left at the end of the result; a
\* name that ends with a '.' that is not the '.' of a separated jr. or sr.
\* is kept whole, as is a name without comma and whitespace; the call
\* throws exactly when nothing remains.
C8_SuffixStripping ==
  FamilyCalled =>
    LET r == result.str
        t == FamilyText
    IN
    /\ IsPrefixOf(r, t)
    /\ IsSuffixChain(SubStr(t, Len(r) + 1, Len(t)))
    /\ \A i \in 1..Len(r) : ~SuffixAmended(SubStr(r, i, Len(r)))
    /\ NoSeparatorIn(t) => result = Return(t)
    /\ (t[Len(t)] = "." /\ \A i \in 1..Len(t) : ~SuffixAmended(SubStr(t, i, Len(t))))
         => result = Return(t)
    /\ result.kind = "return" <=> r # <<>>

C8_Witness ==
  /\ FamilyCalled
  /\ raw.chars = <<"Q","u"," ","J","r",".",","," ","I","I">>
  /\ result = Return(<<"q","u">>)

\* C9: formatFamilyName applied to a value that formatFamilyName returned
\* returns that value.
C9_Idempotent ==
  (pc = "done" /\ op = "formatFamilyName" /\ fed /\ prev.kind = "return") =>
    result = prev

\* What the claim about formatGivenName speaks of.
GivenText == ToLowerCase(Trim(raw.chars))

Honorifics ==
  { <<"m","r",".">>, <<"m","r","s",".">>, <<"m","s",".">>, <<"d","r",".">> }

LeadingHonorifics ==
  { h \in Honorifics :
      /\ Len(GivenText) >= Len(h)
      /\ SubStr(GivenText, 1, Len(h)) = h
      /\ (Len(GivenText) = Len(h) \/ GivenText[Len(h) + 1] \in WhiteSpace) }

\* C10: formatGivenName trims and lower-cases; when the text starts with
\* mr., mrs., ms. or dr. and that is followed by a whitespace character or
\* by the end, this one prefix is removed and the rest is trimmed, and the
\* call throws if the rest is empty; otherwise the text is returned as it
\* is, prefix-like tokens elsewhere included.
C10_GivenNamePrefix ==
  (/\ pc = "done"
   /\ op = "formatGivenName"
   /\ raw.tag = "string"
   /\ ~IsBlank(raw.chars)) =>
    IF LeadingHonorifics = {} THEN result = Return(GivenText)
    ELSE LET h == CHOOSE x \in LeadingHonorifics : TRUE
             rest == Trim(SubStr(GivenText, Len(h) + 1, Len(GivenText)))
         IN IF rest = <<>> THEN result.kind = "throw" ELSE result = Return(rest)

C10_Witness ==
  /\ pc = "done"
  /\ op = "formatGivenName"
  /\ raw.chars = <<" ","M","r","."," ","d","r",".">>
  /\ result = Return(<<"d","r",".">>)


\* The decimal digits of s, in the order they have in s.
RECURSIVE DigitsOf(_)
DigitsOf(s) ==
  IF s = <<>> THEN <<>>
  ELSE IF Head(s) \in Digits THEN <<Head(s)>> \o DigitsOf(Tail(s))
  ELSE DigitsOf(Tail(s))

\* C11: formatPhoneNumber returns '+' followed by exactly the decimal digits
\* of the input in their order, every other character discarded; it throws
\* exactly when the input has no digit, whatever the number and the place of
\* the digits; inputs with the same digits give the same result.
C11_PhoneDigits ==
  (pc = "done" /\ op = "formatPhoneNumber") =>
    LET digits == IF raw.tag = "string" THEN DigitsOf(raw.chars) ELSE <<>> IN
    /\ result.kind = "throw" <=> digits = <<>>
    /\ digits # <<>> => result = Return(<<"+">> \o digits)
    /\ \A other \in {StringValue(digits),
                      StringValue(<<"+">> \o digits \o <<" ">>)} :
         digits # <<>> => formatPhoneNumber(other) = result

C11_Witness ==
  /\ pc = "done"
  /\ op = "formatPhoneNumber"
  /\ raw = StringValue(<<"+", "1", "-", "2", "0">>)
  /\ result = Return(<<"+", "1", "2", "0">>)

\* C12: formatRegionCode returns exactly when the trimmed input is two
\* letters A-Z in either case, and then returns the two letters upper-cased;
\* a trimmed input of one character or of three or more, an input with a
\* digit or an inner space, and a blank input all throw.
C12_RegionCode ==
  (pc = "done" /\ op = "formatRegionCode") =>
    LET t == IF raw.tag = "string" THEN Trim(raw.chars) ELSE <<>> IN
    /\ result.kind = "return" <=>
         (Len(t) = 2 /\ \A i \in 1..Len(t) : IsUpper(t[i]) \/ IsLower(t[i]))
    /\ result.kind = "return" =>
         result.str = [i \in 1..Len(t) |-> ToUpperChar(t[i])]
    /\ (Len(t) # 2 \/ \E i \in 1..Len(t) : t[i] \in Digits \cup WhiteSpace) =>
         result.kind = "throw"

\* The inputs that differ from s in surrounding whitespace and in letter
\* case only: s in lower case, s in upper case, s with the case of every
\* letter swapped, s with whitespace put around it, s trimmed.
SwapCase(s) ==
  [i \in 1..Len(s) |->
     IF IsUpper(s[i]) THEN ToLowerChar(s[i]) ELSE ToUpperChar(s[i])]

EmailVariants(s) ==
  { [i \in 1..Len(s) |-> ToLowerChar(s[i])],
    [i \in 1..Len(s) |-> ToUpperChar(s[i])],
    SwapCase(s),
    <<" ">> \o s \o <<"\n">>,
    <<"\t">> \o SwapCase(s),
    Trim(s) }

\* C13: inputs that differ only in surrounding whitespace and in letter case
\* hash identically: processEmailAddress with the same encoding throws for
\* all of them or returns the same text for all of them, and that text is
\* the encoding of the SHA-256 digest of their common normalized address.
C13_EmailVariants ==
  (pc = "done" /\ op = "processEmailAddress" /\ raw.tag = "string") =>
    \A v \in EmailVariants(raw.chars) :
      LET other == processEmailAddress(StringValue(v), enc)
          normalized == formatEmailAddress(StringValue(v))
      IN /\ other.kind = result.kind
         /\ result.kind = "return" =>
              /\ other = result
              /\ normalized = formatEmailAddress(raw)
              /\ normalized.kind = "return"
              /\ result.str = IF enc = "hex"
                              THEN ToHex(SHA256(normalized.str))
                              ELSE ToBase64(SHA256(normalized.str))

C13_Witness ==
  /\ pc = "done"
  /\ op = "processEmailAddress"
  /\ enc = "hex"
  /\ raw = StringValue(<<" ", "A", "b", "@", "X", ".", "o", "r", "g">>)
  /\ result = processEmailAddress(
                StringValue(<<"a", "B", "@", "x", ".", "O", "R", "G", "\n">>),
                "hex")
  /\ result.kind = "return"

EncoderOps == {"hexEncode", "base64Encode"}

\* C14: hexEncode and base64Encode throw when the Buffer is null, undefined
\* or of length zero, and return for every other Buffer; hexEncode returns
\* two characters per byte, each one of 0-9 and a-f, and nothing else;
\* base64Encode returns the standard base64 text: four characters for every
\* group of up to three bytes, of the standard alphabet, the last group
\* padded with '='.
C14_Encoders ==
  (pc = "done" /\ op \in EncoderOps) =>
    LET n == Len(buf.bytes)
        absent == buf.tag # "buffer" \/ n = 0
        r == result.str
    IN /\ result.kind = IF absent THEN "throw" ELSE "return"
       /\ (op = "hexEncode" /\ ~absent) =>
            /\ Len(r) = 2 * n
            /\ \A i \in 1..Len(r) : r[i] \in Digits \cup Range(SubSeq(LowerCase, 1, 6))
            /\ \A i \in 1..n :
                 /\ IndexOf(HexDigits, r[2 * i - 1]) - 1 = buf.bytes[i] \div 16
                 /\ IndexOf(HexDigits, r[2 * i]) - 1 = buf.bytes[i] % 16
       /\ (op = "base64Encode" /\ ~absent) =>
            LET pad == (3 - (n % 3)) % 3 IN
            /\ Len(r) = 4 * ((n + 2) \div 3)
            /\ \A i \in 1..(Len(r) - pad) : r[i] \in Range(Base64Alphabet)
            /\ \A i \in (Len(r) - pad + 1)..Len(r) : r[i] = "="

C14_Witness ==
  /\ pc = "done"
  /\ op = "base64Encode"
  /\ buf = BufferValue(<<171, 239>>)
  /\ result = Return(<<"q", "+", "8", "=">>)

\* Standard hexadecimal decoding: two characters give one byte.
RECURSIVE HexDecode(_)
HexDecode(s) ==
  IF Len(s) < 2 THEN <<>>
  ELSE <<(IndexOf(HexDigits, s[1]) - 1) * 16 + (IndexOf(HexDigits, s[2]) - 1)>>
         \o HexDecode(SubStr(s, 3, Len(s)))

B64Value(c) == IndexOf(Base64Alphabet, c) - 1

\* Standard base64 decoding: four characters give three bytes, and a last
\* group with one or two '=' gives two bytes or one byte.
RECURSIVE Base64Decode(_)
Base64Decode(s) ==
  IF Len(s) < 4 THEN <<>>
  ELSE LET b1 == B64Value(s[1]) * 4 + B64Value(s[2]) \div 16 IN
       IF s[3] = "=" THEN <<b1>>
       ELSE LET b2 == (B64Value(s[2]) % 16) * 16 + B64Value(s[3]) \div 4 IN
            IF s[4] = "=" THEN <<b1, b2>>
            ELSE <<b1, b2, (B64Value(s[3]) % 4) * 64 + B64Value(s[4])>>
                   \o Base64Decode(SubStr(s, 5, Len(s)))

\* The Buffers next to b: one byte replaced, the last byte dropped, one byte
\* added at the end.
Neighbours(b) ==
  ({[b EXCEPT ![i] = x] : i \in 1..Len(b), x \in ByteChoices}
     \cup {SubStr(b, 1, Len(b) - 1)}
     \cup {Append(b, x) : x \in ByteChoices}) \ {b, <<>>}

\* C15: for a Buffer b that is not empty, decoding hexEncode(b) as
\* hexadecimal gives b and decoding base64Encode(b) as base64 gives b, and
\* no other Buffer has the same encoded text.
C15_RoundTrip ==
  (pc = "done" /\ op \in EncoderOps /\ result.kind = "return") =>
    /\ op = "hexEncode" =>
         /\ HexDecode(result.str) = buf.bytes
         /\ \A o \in Neighbours(buf.bytes) :
              hexEncode(BufferValue(o)) # result
    /\ op = "base64Encode" =>
         /\ Base64Decode(result.str) = buf.bytes
         /\ \A o \in Neighbours(buf.bytes) :
              base64Encode(BufferValue(o)) # result

C15_Witness ==
  /\ pc = "done"
  /\ op = "base64Encode"
  /\ Len(buf.bytes) = 4
  /\ buf.bytes[4] = 255
  /\ Base64Decode(result.str) = buf.bytes

C20_HashAndEncodeNeverFail ==
  (pc = "done" /\ op \in IdentifierProcessOps) =>
    LET normalized == Format(field, raw) IN
    /\ result.kind = "throw" <=>
         (normalized.kind = "throw" \/ enc \notin {"hex", "base64"})
    /\ normalized.kind = "return" =>
         LET digest == hashString(StringValue(normalized.str)) IN
         /\ ~IsBlank(normalized.str)
         /\ digest.kind = "return"
         /\ Len(digest.bytes) = DigestLength
         /\ hexEncode(BufferValue(digest.bytes)).kind = "return"
         /\ base64Encode(BufferValue(digest.bytes)).kind = "return"

C20_Witness ==
  /\ pc = "done"
  /\ op = "processFamilyName"
  /\ enc = "hex"
  /\ raw = StringValue(<<"Q", "u", " ", ",", " ", "I", "I">>)
  /\ Format(field, raw) = Return(<<"q", "u", " ">>)
  /\ result.kind = "return"

\* The record lists of the requests, one after the other.
RECURSIVE Flatten(_)
Flatten(batches) ==
  IF batches = <<>> THEN <<>> ELSE Head(batches) \o Flatten(Tail(batches))

Accepted(kind, value) ==
  IF kind = "emailAddress"
  THEN formatEmailAddress(StringValue(value)).kind = "return"
  ELSE formatPhoneNumber(StringValue(value)).kind = "return"

\* The hex text of the digest of the normalized value.
HexDigest(kind, value) ==
  ToHex(SHA256(IF kind = "emailAddress"
               THEN formatEmailAddress(StringValue(value)).str
               ELSE formatPhoneNumber(StringValue(value)).str))

\* The identifiers of the accepted values of one kind, in their order.
AcceptedIdentifiers(kind, values) ==
  LET accepted == SelectSeq(values, LAMBDA v : Accepted(kind, v)) IN
  [j \in 1..Len(accepted) |->
     [kind |-> kind, value |-> HexDigest(kind, accepted[j])]]

\* A row that a sample turns down for what is not a user identifier.
RowTurnedDown(row) ==
  IF sample = "events"
  THEN \/ row.timestamp # "1970-01-01T00:00:01.250Z"
       \/ row.transactionId = ""
       \/ row.eventSource \notin {"", "WEB"}
  ELSE /\ \A v \in Range(row.emails) : ~Accepted("emailAddress", v)
       /\ \A w \in Range(row.phoneNumbers) : ~Accepted("phoneNumber", w)

\* C18: in either sample the user identifiers of the record of a row are
\* the hex digests of the email addresses of the row that the formatter
\* accepts, in their order, followed by those of its phone numbers, in their
\* order; a value the formatter rejects is left out, and it ends neither the
\* row (the row still gets its record, with the identifiers after the
\* rejected one) nor the run (the rows after it are read, and the records
\* are sent).
C18_IdentifierSkip ==
  (sample \in Samples /\ at \in {"rows", "send", "end"}) =>
    /\ \A k \in 1..Len(records) :
         LET row == rows[records[k].row] IN
         records[k].userIdentifiers =
           AcceptedIdentifiers("emailAddress", row.emails)
             \o AcceptedIdentifiers("phoneNumber", row.phoneNumbers)
    /\ \A r \in 1..(rowIx - 1) :
         ~RowTurnedDown(rows[r]) => \E k \in 1..Len(records) : records[k].row = r
    /\ at # "rows" => rowIx = Len(rows) + 1
    /\ at = "end" => Flatten(sent) = records

C18_Witness ==
  /\ sample = "audiences"
  /\ at = "end"
  /\ Len(rows) = 2
  /\ Len(rows[1].emails) = 3
  /\ Len(rows[1].phoneNumbers) = 2
  /\ Len(records) = 2
  /\ Len(records[1].userIdentifiers) = 3
  /\ records[1].userIdentifiers[3].kind = "phoneNumber"
  /\ Len(sent) = 1

\* C19: in ingest_events a row whose timestamp Date does not parse is
\* skipped with a warning: no event is built from it and none is sent for
\* it, and the rows after it are read.
C19_InvalidTimestampSkipped ==
  (sample = "events" /\ at \in {"rows", "send", "end"}) =>
    \A r \in 1..(rowIx - 1) :
      rows[r].timestamp # "1970-01-01T00:00:01.250Z" =>
        /\ \A k \in 1..Len(records) : records[k].row # r
        /\ \E w \in 1..Len(warnings) :
             /\ warnings[w].row = r
             /\ warnings[w].message = "Invalid timestamp format. Skipping row."
        /\ at # "rows" => rowIx = Len(rows) + 1

\* A round of the loop leaves a beginning of the working string that is at
\* least two characters shorter.
RoundRemovesTwo ==
  rounds' = rounds + 1 =>
    /\ Len(nameLeft') + 2 <= Len(nameLeft)
    /\ nameLeft' = SubStr(nameLeft, 1, Len(nameLeft'))

\* C21: the suffix loop of formatFamilyName ends for every family name: a
\* round whose test succeeded takes at least two characters off the working
\* string, the rounds are never more than half the length of the trimmed
\* family name, every call comes to its end, and a call that went through
\* the loop ends with a working string the suffix pattern does not match.
C21_LoopTerminates ==
  /\ [][RoundRemovesTwo]_vars
  /\ [](rounds * 2 <= Len(trimmedName))
  /\ [](loopAt = "done" /\ trimmedName # <<>> => ~SuffixTest(nameLeft))
  /\ <>(loopAt = "done")

\* The loop has ended after two rounds and the name that is left is
\* returned.
C21_Witness ==
  /\ loopAt = "done"
  /\ rounds = 2
  /\ nameLeft # <<>>
  /\ Len(nameLeft) + 4 <= Len(trimmedName)
  /\ result = Return(nameLeft)

=========================================================================
